---- MODULE Spec2Model ----
(***************************************************************************)
(* Gesture-to-chord triggering of midi-python.                             *)
(*                                                                         *)
(* The repository holds two scripts.  main.py runs a frame loop whose      *)
(* "Chord Playing Logic" block keeps last_played_fingers and               *)
(* last_sound_play_time; sample.py holds GestureChordPlayer, whose         *)
(* play_chord keeps last_played_chord and last_play_time.  A run of the    *)
(* model is a run of one of the two scripts (prog), fed with a stream of   *)
(* frames.  Times are in milliseconds: main.py reads time.time() (seconds, *)
(* debounce_time = 0.3 s = 300 ms), sample.py reads                        *)
(* pygame.time.get_ticks() (milliseconds).                                 *)
(***************************************************************************)
EXTENDS Integers, Sequences, FiniteSets, TLC

VARIABLES
    prog,                  \* which script runs: "main" or "sample"
    pygame_mixer_ok,       \* main.py: the mixer initialised
    chord_sounds,          \* main.py: the classes whose sample was loaded
    last_played_fingers,   \* main.py
    last_sound_play_time,  \* main.py
    last_played_chord,     \* sample.py
    last_play_time,        \* sample.py
    now,                   \* the clock the scripts read
    playing,               \* the mixer: the samples on its active channels
    ev,                    \* the frame handled last: hand, class, time
    emitted,               \* the mixer calls of the frame handled last
    pre,                   \* the state before the loop iteration made last
    run,                   \* the current run of same-class hand-present frames
    pc,                    \* "loop", "cleanup" (the loop was left) or "done"
    key,                   \* the quit key ('q', ESC) was pressed and not read
    should_exit,           \* sample.py: GestureChordPlayer.should_exit
    step,                  \* what the script did last
    cap_open,              \* the camera handle is open
    mixer_up,              \* the audio subsystem is initialised
    landmark,              \* a landmark set given to the finger counters
    fingers_up_count,      \* main.py: its count of landmark, -1 before
    extended_fingers       \* sample.py: its count of landmark, -1 before

vars == <<prog, pygame_mixer_ok, chord_sounds, last_played_fingers,
          last_sound_play_time, last_played_chord, last_play_time, now,
          playing, ev, emitted, pre, run, pc, key, should_exit, step,
          cap_open, mixer_up, landmark, fingers_up_count, extended_fingers>>

\* the variables of the finger counters taken alone
clsvars == <<landmark, fingers_up_count, extended_fingers>>

\* the variables of the frame loops
loopvars == <<prog, pygame_mixer_ok, chord_sounds, last_played_fingers,
              last_sound_play_time, last_played_chord, last_play_time, now,
              playing, ev, emitted, pre, run, pc, key, should_exit, step,
              cap_open, mixer_up>>

---------------------------------------------------------------------------
(* Bounds of the model *)

\* the granularity of the clock, in ms
Tick == 100
\* how many ticks the clock of main.py runs past its start
MaxTicksMain == 8
\* how many ticks the clock of sample.py runs
MaxTicksSample == 21
\* how many of the chord files may fail to load (main.py)
MaxMissing == 1
\* time.time() when main.py starts, in ms after the epoch
StartTime == 1000
\* the largest y of a landmark given to the finger counters taken alone
MaxY == 1

\* the clock advance between two frames, in ticks
DeltaMain == {0, 1, 2, 4}
DeltaSample == {0, 5, 6}

---------------------------------------------------------------------------
(* Configuration of the scripts *)

debounce_time == 300
chord_cooldown == 1000
\* last_played_fingers before anything was played
NothingPlayed == -1
\* last_played_chord = None
None == -1

finger_chord_map ==
    (1 :> "C_chord.wav") @@ (2 :> "Am_chord.wav") @@ (3 :> "F_chord.wav")
    @@ (4 :> "G_chord.wav") @@ (5 :> "C_chord.wav")

chords == {1, 2, 3, 4}

ChordFiles == {finger_chord_map[f] : f \in DOMAIN finger_chord_map}

\* chord_sounds after the loading loop, given the files that load
LoadChordSounds(ok, files) ==
    IF ok THEN {f \in DOMAIN finger_chord_map : finger_chord_map[f] \in files}
    ELSE {}

---------------------------------------------------------------------------
(* Landmarks and the two finger counters *)

finger_tips == <<8, 12, 16, 20>>
finger_pips == <<6, 10, 14, 18>>
thumb_tip == 4
thumb_ip == 3
thumb_mcp == 2

\* the count without the thumb
FingersUpCount_NoThumb(lm) ==
    Cardinality({i \in 1..4 : lm[finger_tips[i]] < lm[finger_pips[i]]})

\* the count with <= in place of < in the thumb test against its IP joint
FingersUpCount_ThumbTie(lm) ==
    Cardinality({i \in 1..4 : lm[finger_tips[i]] < lm[finger_pips[i]]})
    + (IF lm[thumb_tip] <= lm[thumb_ip] /\ lm[thumb_tip] < lm[thumb_mcp]
       THEN 1 ELSE 0)

\* main.py: the Finger Counting Logic block
FingersUpCount(lm) ==
    Cardinality({i \in 1..4 : lm[finger_tips[i]] < lm[finger_pips[i]]})
    + (IF lm[thumb_tip] < lm[thumb_ip] /\ lm[thumb_tip] < lm[thumb_mcp]
       THEN 1 ELSE 0)

\* sample.py: count_extended_fingers
count_extended_fingers(lm) ==
    Cardinality({i \in 1..4 : lm[finger_tips[i]] < lm[finger_tips[i] - 2]})

\* A hand with the given fingers raised (1 = thumb .. 5 = pinky): joints at
\* height 1, a raised tip above (0), a folded tip below (2).
AllTips == <<4, 8, 12, 16, 20>>
HandWith(raised) ==
    [k \in 0..20 |->
        IF \E i \in 1..5 : AllTips[i] = k
        THEN (IF \E i \in raised : AllTips[i] = k THEN 0 ELSE 2)
        ELSE 1]

\* the hands the frames show
HandShapes ==
    {HandWith(r) : r \in {{}, {1}, {2}, {2, 3}, {1, 2, 3}, {2, 3, 4},
                          {2, 3, 4, 5}, {1, 2, 3, 4, 5}}}

---------------------------------------------------------------------------
(* The mixer *)

Stop == [op |-> "stop", snd |-> 0]
Play(c) == [op |-> "play", snd |-> c]

\* pygame.mixer.stop() halts every channel; Sound.play() starts one more
MixerDo(chan, act) ==
    IF act.op = "stop" THEN <<>> ELSE Append(chan, act.snd)

RECURSIVE MixerRun(_, _)
MixerRun(chan, acts) ==
    IF acts = <<>> THEN chan
    ELSE MixerRun(MixerDo(chan, Head(acts)), Tail(acts))

---------------------------------------------------------------------------
(* main.py: the Chord Playing Logic block of the frame loop *)

\* the test without the comparison of the count
CountChanged_Always(fingers, lpf, ok) == ok

\* the test without "and pygame_mixer_ok"
CountChanged_NoMixerTest(fingers, lpf, ok) == fingers # lpf

\* "if fingers_up_count != last_played_fingers and pygame_mixer_ok"
CountChanged(fingers, lpf, ok) == fingers # lpf /\ ok

\* the test with >= in place of >
DebouncePassed_AtLeast(t, lspt) == t - lspt >= debounce_time
DebouncePassed_Always(t, lspt) == TRUE
DebouncePassed_Twice(t, lspt) == t - lspt > 2 * debounce_time

\* "if (current_time - last_sound_play_time > debounce_time)"
DebouncePassed(t, lspt) == t - lspt > debounce_time

\* "elif not results.multi_hand_landmarks and last_played_fingers != -1"
HandLost(hand, lpf) == ~hand /\ lpf # NothingPlayed

\* StopAndPlay without the call of pygame.mixer.stop() before the play
StopAndPlay_NoStop(fingers, t, lspt, sounds) ==
    IF fingers \in sounds
    THEN [lpf |-> fingers, lspt |-> t, acts |-> <<Play(fingers)>>]
    ELSE [lpf |-> 0, lspt |-> lspt, acts |-> <<Stop>>]

\* StopAndPlay playing the count whether or not it has a sample
StopAndPlay_PlayAny(fingers, t, lspt, sounds) ==
    [lpf |-> fingers, lspt |-> t, acts |-> <<Stop, Play(fingers)>>]

\* StopAndPlay stopping the mixer only when the count has a sample
StopAndPlay_KeepSound(fingers, t, lspt, sounds) ==
    IF fingers \in sounds
    THEN [lpf |-> fingers, lspt |-> t, acts |-> <<Stop, Play(fingers)>>]
    ELSE [lpf |-> 0, lspt |-> lspt, acts |-> <<>>]

\* StopAndPlay recording the count and the time when it has no sample
StopAndPlay_ForgetPlay(fingers, t, lspt, sounds) ==
    IF fingers \in sounds
    THEN [lpf |-> 0, lspt |-> t, acts |-> <<Stop, Play(fingers)>>]
    ELSE [lpf |-> 0, lspt |-> lspt, acts |-> <<Stop>>]
StopAndPlay_Record(fingers, t, lspt, sounds) ==
    IF fingers \in sounds
    THEN [lpf |-> fingers, lspt |-> t, acts |-> <<Stop, Play(fingers)>>]
    ELSE [lpf |-> fingers, lspt |-> t, acts |-> <<Stop>>]

\* The body of the debounce test: pygame.mixer.stop(), then the sample of
\* the count is played and recorded, or last_played_fingers is reset to 0.
\* The new last_played_fingers (lpf), the new last_sound_play_time (lspt) and
\* the mixer calls made (acts).
StopAndPlay(fingers, t, lspt, sounds) ==
    IF fingers \in sounds
    THEN [lpf |-> fingers, lspt |-> t, acts |-> <<Stop, Play(fingers)>>]
    ELSE [lpf |-> 0, lspt |-> lspt, acts |-> <<Stop>>]

\* The block as a whole.
ChordPlayingLogic(hand, fingers, t, lpf, lspt, ok, sounds) ==
    IF CountChanged(fingers, lpf, ok)
    THEN IF DebouncePassed(t, lspt)
         THEN StopAndPlay(fingers, t, lspt, sounds)
         ELSE [lpf |-> lpf, lspt |-> lspt, acts |-> <<>>]
    ELSE IF HandLost(hand, lpf)
         THEN [lpf |-> NothingPlayed, lspt |-> lspt,
               acts |-> IF ok THEN <<Stop>> ELSE <<>>]
         ELSE [lpf |-> lpf, lspt |-> lspt, acts |-> <<>>]

\* the empty frame handled as a frame without a hand ("continue" left out)
IgnoreEmptyFrame_FallThrough(t, lpf, lspt, ok, sounds) ==
    ChordPlayingLogic(FALSE, 0, t, lpf, lspt, ok, sounds)

\* "if not success: ... continue": the rest of the iteration is skipped
IgnoreEmptyFrame(t, lpf, lspt, ok, sounds) ==
    [lpf |-> lpf, lspt |-> lspt, acts |-> <<>>]

---------------------------------------------------------------------------
(* sample.py: GestureChordPlayer.play_chord *)

\* the condition of play_chord without its cooldown test
CooldownAllows_NoCooldown(n, t, lpc, lpt) == n \in chords
CooldownAllows_Both(n, t, lpc, lpt) ==
    n \in chords /\ lpc # n /\ t - lpt > chord_cooldown

\* the condition of play_chord
CooldownAllows(n, t, lpc, lpt) ==
    n \in chords /\ (lpc # n \/ t - lpt > chord_cooldown)

\* play_chord(num_fingers): the new last_played_chord (lpc), the new
\* last_play_time (lpt) and the mixer calls it makes (acts)
play_chord(n, t, lpc, lpt) ==
    IF CooldownAllows(n, t, lpc, lpt)
    THEN [lpc |-> n, lpt |-> t, acts |-> <<Stop, Play(n)>>]
    ELSE [lpc |-> lpc, lpt |-> lpt, acts |-> <<>>]

\* run(): play_chord is called only for a hand with num_fingers > 0
HandleHand(hand, n, t, lpc, lpt) ==
    IF hand /\ n > 0 THEN play_chord(n, t, lpc, lpt)
    ELSE [lpc |-> lpc, lpt |-> lpt, acts |-> <<>>]

---------------------------------------------------------------------------
(* Observation of the runs of same-class frames *)

\* cls: the class of the run; start: the time of its first frame; len: its
\* length, counted up to 3; plays: the plays emitted at its frames; first:
\* its first frame emitted a play; acted: its first frame made a mixer call;
\* fresh: the frame before its first frame was not a hand-present frame of
\* the same class
NoRun == [cls |-> -2, start |-> 0, len |-> 0, plays |-> 0, first |-> FALSE,
          acted |-> FALSE, fresh |-> FALSE]

Min(a, b) == IF a < b THEN a ELSE b

Plays(acts) == Cardinality({i \in DOMAIN acts : acts[i].op = "play"})
Stops(acts) == Cardinality({i \in DOMAIN acts : acts[i].op = "stop"})

Interval == IF prog = "main" THEN debounce_time ELSE chord_cooldown

\* A run is a sequence of consecutive hand-present frames of one class whose
\* times lie within Interval of its first frame.  Any frame may be taken as
\* the first one of a run; a frame of the same class inside the interval may
\* instead extend the run observed so far.
RunNext(hand, c, t, acts) ==
    IF ~hand THEN {NoRun}
    ELSE {[cls |-> c, start |-> t, len |-> 1, plays |-> Plays(acts),
           first |-> Plays(acts) > 0, acted |-> acts # <<>>,
           fresh |-> ~(ev.seen /\ ev.hand /\ ev.fingers = c)]}
         \cup (IF run.cls = c /\ t - run.start <= Interval
               THEN {[run EXCEPT !.len = Min(@ + 1, 3),
                                 !.plays = @ + Plays(acts)]}
               ELSE {})

---------------------------------------------------------------------------
(* The frames *)

Frames ==
    {[hand |-> FALSE, lm |-> HandWith({})]}
    \cup {[hand |-> TRUE, lm |-> h] : h \in HandShapes}

\* the outcomes of the loading loop: at most MaxMissing files do not load
LoadOutcomes ==
    {ChordFiles \ m : m \in {x \in SUBSET ChordFiles : Cardinality(x) <= MaxMissing}}

\* The trigger state and the stop request before an iteration; played_at is
\* the time of the most recent play emitted before it, -1 when there is none.
Snapshot(played, time) ==
    [played |-> played, time |-> time, playing |-> playing,
     stop |-> key \/ should_exit,
     played_at |-> IF Plays(emitted) > 0 THEN ev.t ELSE pre.played_at]

InitLoop ==
    /\ prog \in {"main", "sample"}
    /\ IF prog = "main"
       THEN /\ pygame_mixer_ok \in BOOLEAN
            /\ \E files \in LoadOutcomes :
                  chord_sounds = LoadChordSounds(pygame_mixer_ok, files)
            /\ now = StartTime
       ELSE /\ pygame_mixer_ok = TRUE
            /\ chord_sounds = {}
            /\ now = 0
    /\ last_played_fingers = NothingPlayed
    /\ last_sound_play_time = 0
    /\ last_played_chord = None
    /\ last_play_time = 0
    /\ playing = <<>>
    /\ ev = [seen |-> FALSE, hand |-> FALSE, fingers |-> 0, t |-> 0]
    /\ emitted = <<>>
    /\ pre = [played |-> NothingPlayed, time |-> 0, playing |-> <<>>,
              stop |-> FALSE, played_at |-> -1]
    /\ run = NoRun
    /\ pc = "loop"
    /\ key = FALSE
    /\ should_exit = FALSE
    /\ step = "none"
    /\ cap_open = TRUE
    /\ mixer_up = pygame_mixer_ok

Init ==
    /\ InitLoop
    /\ landmark = HandWith({})
    /\ fingers_up_count = -1
    /\ extended_fingers = -1

\* the user presses the quit key: 'q' for main.py, ESC for sample.py
PressKey ==
    /\ pc = "loop"
    /\ ~key
    /\ key' = TRUE
    /\ UNCHANGED clsvars
    /\ UNCHANGED <<prog, pygame_mixer_ok, chord_sounds, last_played_fingers,
                   last_sound_play_time, last_played_chord, last_play_time,
                   now, playing, ev, emitted, pre, run, pc, should_exit,
                   step, cap_open, mixer_up>>

\* sample.py: handle_exit, the handler of SIGINT and SIGTERM
handle_exit ==
    /\ prog = "sample"
    /\ pc = "loop"
    /\ ~should_exit
    /\ should_exit' = TRUE
    /\ UNCHANGED clsvars
    /\ UNCHANGED <<prog, pygame_mixer_ok, chord_sounds, last_played_fingers,
                   last_sound_play_time, last_played_chord, last_play_time,
                   now, playing, ev, emitted, pre, run, pc, key, step,
                   cap_open, mixer_up>>

\* main.py: one iteration of the frame loop on a frame that was read; it
\* ends with the test of the 'q' key.  The runs of same-class frames are
\* observed when observe is TRUE.
MainIteration(observe) ==
    /\ prog = "main"
    /\ pc = "loop"
    /\ cap_open
    /\ \E dt \in DeltaMain, fr \in Frames :
          LET t == now + dt * Tick
              fingers == IF fr.hand THEN FingersUpCount(fr.lm) ELSE 0
              r == ChordPlayingLogic(fr.hand, fingers, t, last_played_fingers,
                                     last_sound_play_time, pygame_mixer_ok,
                                     chord_sounds)
          IN /\ t <= StartTime + MaxTicksMain * Tick
             /\ now' = t
             /\ last_played_fingers' = r.lpf
             /\ last_sound_play_time' = r.lspt
             /\ playing' = MixerRun(playing, r.acts)
             /\ emitted' = r.acts
             /\ ev' = [seen |-> TRUE, hand |-> fr.hand, fingers |-> fingers,
                       t |-> t]
             /\ pre' = Snapshot(last_played_fingers, last_sound_play_time)
             /\ run' \in IF observe THEN RunNext(fr.hand, fingers, t, r.acts)
                        ELSE {run}
    /\ step' = "frame"
    /\ pc' = IF key THEN "cleanup" ELSE "loop"
    /\ key' = FALSE
    /\ UNCHANGED clsvars
    /\ UNCHANGED <<prog, pygame_mixer_ok, chord_sounds, last_played_chord,
                   last_play_time, should_exit, cap_open, mixer_up>>

MainFrame == MainIteration(FALSE)
MainFrameObserved == MainIteration(TRUE)

\* main.py: one iteration of the frame loop on a frame that was not read
MainEmptyFrame ==
    /\ prog = "main"
    /\ pc = "loop"
    /\ cap_open
    /\ LET r == IgnoreEmptyFrame(now, last_played_fingers,
                                 last_sound_play_time, pygame_mixer_ok,
                                 chord_sounds)
       IN /\ last_played_fingers' = r.lpf
          /\ last_sound_play_time' = r.lspt
          /\ playing' = MixerRun(playing, r.acts)
          /\ emitted' = r.acts
    /\ pre' = Snapshot(last_played_fingers, last_sound_play_time)
    /\ step' = "empty"
    /\ UNCHANGED clsvars
    /\ UNCHANGED <<prog, pygame_mixer_ok, chord_sounds, last_played_chord,
                   last_play_time, now, ev, run, pc, key, should_exit,
                   cap_open, mixer_up>>

\* main.py: the Cleanup section after the loop
MainCleanup ==
    /\ prog = "main"
    /\ pc = "cleanup"
    /\ playing' = IF pygame_mixer_ok THEN <<>> ELSE playing
    /\ mixer_up' = FALSE
    /\ cap_open' = FALSE
    /\ pc' = "done"
    /\ step' = "cleanup"
    /\ UNCHANGED clsvars
    /\ UNCHANGED <<prog, pygame_mixer_ok, chord_sounds, last_played_fingers,
                   last_sound_play_time, last_played_chord, last_play_time,
                   now, ev, emitted, pre, run, key, should_exit>>

\* sample.py: one iteration of the loop of run() on a frame that was read;
\* it ends with the test of the ESC key
SampleIteration(observe) ==
    /\ prog = "sample"
    /\ pc = "loop"
    /\ cap_open /\ ~should_exit
    /\ \E dt \in DeltaSample, fr \in Frames :
          LET t == now + dt * Tick
              n == IF fr.hand THEN count_extended_fingers(fr.lm) ELSE 0
              r == HandleHand(fr.hand, n, t, last_played_chord, last_play_time)
          IN /\ t <= MaxTicksSample * Tick
             /\ now' = t
             /\ last_played_chord' = r.lpc
             /\ last_play_time' = r.lpt
             /\ playing' = MixerRun(playing, r.acts)
             /\ emitted' = r.acts
             /\ ev' = [seen |-> TRUE, hand |-> fr.hand, fingers |-> n, t |-> t]
             /\ pre' = Snapshot(last_played_chord, last_play_time)
             /\ run' \in IF observe THEN RunNext(fr.hand, n, t, r.acts)
                        ELSE {run}
    /\ step' = "frame"
    /\ pc' = IF key THEN "cleanup" ELSE "loop"
    /\ key' = FALSE
    /\ UNCHANGED clsvars
    /\ UNCHANGED <<prog, pygame_mixer_ok, chord_sounds, last_played_fingers,
                   last_sound_play_time, should_exit, cap_open, mixer_up>>

SampleFrame == SampleIteration(FALSE)
SampleFrameObserved == SampleIteration(TRUE)

\* sample.py: a frame that was not read ends the loop ("break")
SampleEmptyFrame ==
    /\ prog = "sample"
    /\ pc = "loop"
    /\ cap_open /\ ~should_exit
    /\ emitted' = <<>>
    /\ pre' = Snapshot(last_played_chord, last_play_time)
    /\ step' = "empty"
    /\ pc' = "cleanup"
    /\ UNCHANGED clsvars
    /\ UNCHANGED <<prog, pygame_mixer_ok, chord_sounds, last_played_fingers,
                   last_sound_play_time, last_played_chord, last_play_time,
                   now, playing, ev, run, key, should_exit, cap_open,
                   mixer_up>>

\* sample.py: the loop condition finds should_exit set
SampleLoopExit ==
    /\ prog = "sample"
    /\ pc = "loop"
    /\ should_exit
    /\ emitted' = <<>>
    /\ pre' = Snapshot(last_played_chord, last_play_time)
    /\ step' = "exit"
    /\ pc' = "cleanup"
    /\ UNCHANGED clsvars
    /\ UNCHANGED <<prog, pygame_mixer_ok, chord_sounds, last_played_fingers,
                   last_sound_play_time, last_played_chord, last_play_time,
                   now, playing, ev, run, key, should_exit, cap_open,
                   mixer_up>>

\* sample.py: "Clean up" after the loop: cap.release(), pygame.quit()
SampleCleanup ==
    /\ prog = "sample"
    /\ pc = "cleanup"
    /\ playing' = <<>>
    /\ mixer_up' = FALSE
    /\ cap_open' = FALSE
    /\ pc' = "done"
    /\ step' = "cleanup"
    /\ UNCHANGED clsvars
    /\ UNCHANGED <<prog, pygame_mixer_ok, chord_sounds, last_played_fingers,
                   last_sound_play_time, last_played_chord, last_play_time,
                   now, ev, emitted, pre, run, key, should_exit>>

Next ==
    \/ MainFrame
    \/ MainEmptyFrame
    \/ MainCleanup
    \/ SampleFrame
    \/ SampleEmptyFrame
    \/ SampleLoopExit
    \/ SampleCleanup
    \/ PressKey
    \/ handle_exit

Spec == Init /\ [][Next]_vars

\* The streams of frames, with the runs of same-class frames observed: no
\* stop is requested, and a frame of main.py may fail to be read.
NextRuns ==
    \/ MainFrameObserved
    \/ MainEmptyFrame
    \/ SampleFrameObserved

SpecRuns == Init /\ [][NextRuns]_vars

---------------------------------------------------------------------------
(* The finger counters taken alone: each is applied to a landmark set *)

\* the landmarks the counters read
UsedLandmarks == {2, 3, 4, 6, 8, 10, 12, 14, 16, 18, 20}

\* the landmark sets tried: every y of 0..MaxY at the landmarks read
LandmarkSets ==
    {[k \in 0..20 |-> IF k \in UsedLandmarks THEN f[k] ELSE 0] :
        f \in [UsedLandmarks -> 0..MaxY]}

InitClassify ==
    /\ InitLoop
    /\ prog = "main"
    /\ pygame_mixer_ok
    /\ chord_sounds = DOMAIN finger_chord_map
    /\ landmark \in LandmarkSets
    /\ fingers_up_count = -1
    /\ extended_fingers = -1

\* main.py: the Finger Counting Logic block on landmark
CountMain ==
    /\ fingers_up_count = -1
    /\ fingers_up_count' = FingersUpCount(landmark)
    /\ UNCHANGED <<landmark, extended_fingers>>
    /\ UNCHANGED loopvars

\* sample.py: count_extended_fingers(landmark)
CountSample ==
    /\ extended_fingers = -1
    /\ extended_fingers' = count_extended_fingers(landmark)
    /\ UNCHANGED <<landmark, fingers_up_count>>
    /\ UNCHANGED loopvars

NextClassify == CountMain \/ CountSample

SpecClassify == InitClassify /\ [][NextClassify]_vars

---------------------------------------------------------------------------
(* Vocabulary of the claims *)

\* the script did last an iteration that handled a frame
Handled == ev.seen /\ step = "frame"

Main == prog = "main" /\ Handled
Sample == prog = "sample" /\ Handled

\* the classes that have a playable sample in the script that runs
Playable ==
    IF prog = "main" THEN chord_sounds ELSE chords

\* main.py: the trigger state is unchanged by the frame handled last
MainUnchanged ==
    /\ last_played_fingers = pre.played
    /\ last_sound_play_time = pre.time
    /\ playing = pre.playing

---------------------------------------------------------------------------
(* C1 *)

\* C1, as stated: in every run of consecutive hand-present frames of one
\* playable class whose times lie within the debounce/cooldown interval of
\* the first frame, exactly one play is emitted, and it is emitted at the
\* first frame.  (Stated of the runs that begin where the class begins, the
\* reading kindest to the claim.)
C1_ExactlyOnePlayAtFirst ==
    (Handled /\ run.cls \in Playable /\ run.fresh) =>
        run.plays = 1 /\ run.first

\* C1, amended: in every such run at most one play is emitted, and when the
\* first frame of the run emits a play, no later frame of the run does.  The
\* first frame emits the play exactly when the trigger condition of the
\* script holds at it: in main.py the class differs from
\* last_played_fingers and more than debounce_time has passed since the last
\* play; in sample.py the class differs from last_played_chord or more than
\* chord_cooldown has passed since the last play.
C1_AtMostOnePlay ==
    (Handled /\ run.cls \in Playable) =>
        /\ run.plays <= 1
        /\ run.first => run.plays = 1
        /\ run.len = 1 =>
              (run.first <=>
                 IF prog = "main"
                 THEN ev.fingers # pre.played
                      /\ ev.t - pre.time > debounce_time
                 ELSE ev.fingers # pre.played
                      \/ ev.t - pre.time > chord_cooldown)

\* a run of three frames, the last later than the first, whose first frame
\* played
C1_Witness ==
    /\ Main
    /\ run.cls \in Playable
    /\ run.len = 3
    /\ run.first
    /\ run.plays = 1
    /\ ev.t > run.start

---------------------------------------------------------------------------
(* C2 *)

\* C2: every play of a frame comes right after a stop of the same frame, and
\* at most one sample is playing in every reachable state.
C2_StopBeforePlay ==
    /\ \A i \in DOMAIN emitted :
          emitted[i].op = "play" => i > 1 /\ emitted[i - 1].op = "stop"
    /\ Len(playing) <= 1

\* a play emitted while another sample was playing
C2_Witness ==
    /\ Handled
    /\ pre.playing # <<>>
    /\ Plays(emitted) = 1
    /\ playing # pre.playing
    /\ Len(playing) = 1

---------------------------------------------------------------------------
(* C3 *)

\* main.py is Sounding(c) before the frame, and the frame shows a hand with
\* another class that has a sample
ChangeOfChord ==
    /\ Main
    /\ pre.played \in chord_sounds
    /\ ev.hand
    /\ ev.fingers \in chord_sounds
    /\ ev.fingers # pre.played

PlayedNow ==
    /\ emitted = <<Stop, Play(ev.fingers)>>
    /\ last_played_fingers = ev.fingers
    /\ last_sound_play_time = ev.t

\* C3, as stated: a change from Sounding(c) to another class d with a sample
\* emits stop, play(d) at that frame and makes the state Sounding(d, now),
\* also within the debounce interval of the previous play.
C3_ChangePlaysAtOnce == ChangeOfChord => PlayedNow

\* C3, amended: the change emits stop, play(d) and makes the state
\* Sounding(d, now) only when the frame comes more than debounce_time after
\* the previous play; within the debounce interval it emits nothing and
\* leaves the state Sounding(c, since).
C3_ChangePlaysAfterDebounce ==
    ChangeOfChord =>
        IF ev.t - pre.time > debounce_time
        THEN PlayedNow
        ELSE emitted = <<>> /\ MainUnchanged

\* the third frame of the scenario: class 2, two ticks after play(1)
C3_Witness ==
    /\ ChangeOfChord
    /\ pre.played = 1
    /\ ev.fingers = 2
    /\ ev.t = pre.time + 2 * Tick
    /\ emitted = <<>>
    /\ last_played_fingers = 1

---------------------------------------------------------------------------
(* C4 *)

\* C4: a frame without a hand that arrives while main.py is Sounding emits
\* exactly one stop and leaves the machine Idle, whatever the time elapsed
\* since the play.
C4_HandLossStops ==
    (Main /\ pygame_mixer_ok /\ pre.played \in chord_sounds /\ ~ev.hand) =>
        /\ emitted = <<Stop>>
        /\ last_played_fingers \notin chord_sounds

---------------------------------------------------------------------------
(* C5 *)

\* C5: a frame whose class is 0 or has no loaded sample emits no play, in
\* both scripts.
C5_NoPlayWithoutSample ==
    (Handled /\ ev.fingers \notin Playable) => Plays(emitted) = 0

\* a hand whose count is in finger_chord_map but has no loaded sample, at a
\* frame that passed the debounce test
C5_Witness ==
    /\ Main
    /\ ev.hand
    /\ ev.fingers \in DOMAIN finger_chord_map
    /\ ev.fingers \notin chord_sounds
    /\ emitted = <<Stop>>

---------------------------------------------------------------------------
(* C6 *)

\* main.py is Sounding(c, since) and the frame shows class c again, more
\* than debounce_time after since
SameChordLater ==
    /\ Main
    /\ pre.played \in chord_sounds
    /\ ev.hand
    /\ ev.fingers = pre.played
    /\ ev.t - pre.time > debounce_time

\* C6, as stated: the same class retriggers once the debounce interval has
\* passed: stop, play(c), and the state becomes Sounding(c, now).
C6_SameChordRetriggers == SameChordLater => PlayedNow

\* C6, amended: the frame emits nothing and leaves the state
\* Sounding(c, since); main.py never retriggers the class it played last.
C6_SameChordNeverRetriggers ==
    SameChordLater => emitted = <<>> /\ MainUnchanged

C6_Witness == SameChordLater /\ emitted = <<>> /\ playing # <<>>

---------------------------------------------------------------------------
(* C7 *)

\* C7: a frame without a hand received while last_played_fingers = -1 emits
\* nothing and leaves last_played_fingers and last_sound_play_time as they
\* were.
C7_IdleHandLossIdempotent ==
    (Main /\ ~ev.hand /\ pre.played = NothingPlayed) =>
        /\ emitted = <<>>
        /\ last_played_fingers = NothingPlayed
        /\ last_sound_play_time = pre.time

---------------------------------------------------------------------------
(* C8 *)

\* C8: after every frame of main.py without a hand, last_played_fingers is
\* the sentinel -1.
C8_NoHandResets ==
    (Main /\ ~ev.hand) => last_played_fingers = NothingPlayed

---------------------------------------------------------------------------
(* C9 *)

\* a hand whose class has no loaded sample
UnmappedHand == Main /\ ev.hand /\ ev.fingers \notin chord_sounds

\* C9, as stated: such a frame moves main.py to Idle without emitting a
\* stop, so a sample that was sounding keeps sounding.
C9_UnmappedKeepsSound ==
    UnmappedHand =>
        /\ Stops(emitted) = 0
        /\ last_played_fingers \notin chord_sounds
        /\ playing = pre.playing

\* C9, amended: with the mixer initialised, such a frame, when its class
\* differs from last_played_fingers and it comes more than debounce_time
\* after the last play, emits one stop (a sample that was sounding is
\* stopped) and sets last_played_fingers to 0, leaving last_sound_play_time;
\* otherwise it emits nothing and leaves the state as it was.
C9_UnmappedStopsSound ==
    (UnmappedHand /\ pygame_mixer_ok) =>
        IF ev.fingers # pre.played /\ ev.t - pre.time > debounce_time
        THEN /\ emitted = <<Stop>>
             /\ playing = <<>>
             /\ last_played_fingers = 0
             /\ last_sound_play_time = pre.time
        ELSE emitted = <<>> /\ MainUnchanged

\* a sounding sample stopped by a hand showing no finger
C9_Witness ==
    /\ UnmappedHand
    /\ ev.fingers = 0
    /\ pre.played \in chord_sounds
    /\ pre.playing # <<>>
    /\ emitted = <<Stop>>
    /\ playing = <<>>

---------------------------------------------------------------------------
(* C10 *)

\* a hand whose class is in finger_chord_map but whose sample did not load
MissingSampleHand ==
    /\ Main
    /\ pygame_mixer_ok
    /\ ev.hand
    /\ ev.fingers \in DOMAIN finger_chord_map
    /\ ev.fingers \notin chord_sounds

\* C10, as stated: such a frame plays nothing but records its class as last
\* played and its time as last play time, so that the frames that repeat the
\* class inside the debounce window make no further mixer call.
C10_MissingSampleRecorded ==
    MissingSampleHand =>
        /\ Plays(emitted) = 0
        /\ emitted # <<>> =>
              /\ last_played_fingers = ev.fingers
              /\ last_sound_play_time = ev.t
        /\ (run.cls = ev.fingers /\ run.len >= 2 /\ run.acted) =>
              emitted = <<>>

\* C10, amended: such a frame plays nothing and records neither its class
\* nor its time: when it comes more than debounce_time after the last play it
\* emits a stop and sets last_played_fingers to 0, otherwise it does nothing;
\* last_sound_play_time stays, so every frame that repeats the class after a
\* frame that stopped the mixer stops it again.
C10_MissingSampleNotRecorded ==
    MissingSampleHand =>
        /\ Plays(emitted) = 0
        /\ last_sound_play_time = pre.time
        /\ IF ev.t - pre.time > debounce_time
           THEN emitted = <<Stop>> /\ last_played_fingers = 0
           ELSE emitted = <<>> /\ MainUnchanged
        /\ (run.cls = ev.fingers /\ run.len >= 2 /\ run.acted) =>
              emitted = <<Stop>>

\* the class repeated inside the debounce window of a frame that stopped the
\* mixer: the mixer is stopped again
C10_Witness ==
    /\ MissingSampleHand
    /\ run.cls = ev.fingers
    /\ run.len >= 2
    /\ run.acted
    /\ ev.t > run.start
    /\ pre.played = 0
    /\ emitted = <<Stop>>

---------------------------------------------------------------------------
(* C11 *)

\* C11: when the mixer failed to initialise, main.py never emits a play or a
\* stop, nothing plays, and last_played_fingers and last_sound_play_time
\* keep their initial values, whatever frames arrive.
C11_VideoOnly ==
    (prog = "main" /\ ~pygame_mixer_ok) =>
        /\ emitted = <<>>
        /\ playing = <<>>
        /\ last_played_fingers = NothingPlayed
        /\ last_sound_play_time = 0

\* without mixer, a hand with a count of finger_chord_map is handled, well
\* after the debounce interval
C11_Witness ==
    /\ Main
    /\ ~pygame_mixer_ok
    /\ ev.hand
    /\ ev.fingers \in DOMAIN finger_chord_map
    /\ ev.t > StartTime + debounce_time

---------------------------------------------------------------------------
(* C12 *)

\* an iteration of the loop (or its loop test) was made last
Iterated == step \in {"frame", "empty", "exit"}

\* C12: in both frame loops the stop request (the quit key, should_exit) is
\* tested on every loop iteration, so an iteration that starts with a stop
\* requested leaves the loop; and when the script is done nothing plays, the
\* camera handle is released and the audio subsystem is shut down.
C12_StopCheckedEveryIteration ==
    /\ (Iterated /\ pre.stop) => pc # "loop"
    /\ pc = "done" => playing = <<>> /\ ~cap_open /\ ~mixer_up

---------------------------------------------------------------------------
(* C13 *)

\* C13: an iteration of main.py on a frame that was not read emits no play
\* and no stop, leaves last_played_fingers, last_sound_play_time and the
\* mixer as they were, and stays in the loop.
C13_EmptyFrameSkipped ==
    (prog = "main" /\ step = "empty") =>
        /\ emitted = <<>>
        /\ last_played_fingers = pre.played
        /\ last_sound_play_time = pre.time
        /\ playing = pre.playing
        /\ pc = "loop"

\* a frame fails to be read while a sample is sounding, after the debounce
\* interval
C13_Witness ==
    /\ prog = "main"
    /\ step = "empty"
    /\ pre.played \in chord_sounds
    /\ pre.playing # <<>>
    /\ now - pre.time > debounce_time

---------------------------------------------------------------------------
(* C14 *)

\* the comparison of a finger indicates extension: its tip is above its PIP
\* joint; for the thumb, its tip is above its IP and its MCP joint
IndexUp == landmark[8] < landmark[6]
MiddleUp == landmark[12] < landmark[10]
RingUp == landmark[16] < landmark[14]
PinkyUp == landmark[20] < landmark[18]
ThumbUp == landmark[4] < landmark[3] /\ landmark[4] < landmark[2]

AllFiveUp == ThumbUp /\ IndexUp /\ MiddleUp /\ RingUp /\ PinkyUp
NoneUp == ~ThumbUp /\ ~IndexUp /\ ~MiddleUp /\ ~RingUp /\ ~PinkyUp

\* what C14 says of one count
Counts05(count) ==
    /\ AllFiveUp => count = 5
    /\ NoneUp => count = 0
    /\ count \in 0..5

\* C14, as stated: for both finger counters and every landmark set, the
\* count is 5 when all five comparisons indicate extension, 0 when none
\* does, and always lies in 0..5.
C14_BothCountFive ==
    /\ fingers_up_count # -1 => Counts05(fingers_up_count)
    /\ extended_fingers # -1 => Counts05(extended_fingers)

\* C14, amended: this holds of the finger counting of main.py;
\* count_extended_fingers of sample.py does not look at the thumb: its count
\* is 4 when the four non-thumb comparisons indicate extension, 0 when none
\* of them does, and always lies in 0..4.
C14_MainCountsFiveSampleFour ==
    /\ fingers_up_count # -1 => Counts05(fingers_up_count)
    /\ extended_fingers # -1 =>
          /\ (IndexUp /\ MiddleUp /\ RingUp /\ PinkyUp) =>
                extended_fingers = 4
          /\ (~IndexUp /\ ~MiddleUp /\ ~RingUp /\ ~PinkyUp) =>
                extended_fingers = 0
          /\ extended_fingers \in 0..4

\* all five fingers up: main.py counts 5, sample.py counts 4
C14_Witness ==
    /\ AllFiveUp
    /\ fingers_up_count = 5
    /\ extended_fingers = 4

---------------------------------------------------------------------------
(* C15 *)

One(b) == IF b THEN 1 ELSE 0

\* C15: the count of main.py is the sum of five contributions: 1 for the
\* thumb iff landmark 4 is strictly above landmarks 3 and 2, and 1 for each
\* other finger iff its tip (8, 12, 16, 20) is strictly above its PIP joint
\* (6, 10, 14, 18).
C15_SumOfFiveContributions ==
    fingers_up_count # -1 =>
        fingers_up_count =
            One(landmark[4] < landmark[3] /\ landmark[4] < landmark[2])
            + One(landmark[8] < landmark[6])
            + One(landmark[12] < landmark[10])
            + One(landmark[16] < landmark[14])
            + One(landmark[20] < landmark[18])

\* the thumb tip level with its IP joint and above its MCP joint, two other
\* fingers up: the thumb is not counted
C15_Witness ==
    /\ landmark[4] = landmark[3]
    /\ landmark[4] < landmark[2]
    /\ IndexUp /\ MiddleUp /\ ~RingUp /\ ~PinkyUp
    /\ fingers_up_count = 2

---------------------------------------------------------------------------
(* C16 *)

\* C16: in main.py a play is emitted only when more than debounce_time has
\* passed since last_sound_play_time, last_sound_play_time changes only at
\* an iteration that emits a play, which sets it to the time of the frame,
\* and so every play comes more than debounce_time after the play before it,
\* whatever the classes.
C16_PlaysSpaced ==
    (prog = "main" /\ step \in {"frame", "empty"}) =>
        /\ Plays(emitted) > 0 =>
              /\ step = "frame"
              /\ ev.t - pre.time > debounce_time
              /\ last_sound_play_time = ev.t
        /\ Plays(emitted) = 0 => last_sound_play_time = pre.time
        /\ (Plays(emitted) > 0 /\ pre.played_at >= 0) =>
              ev.t - pre.played_at > debounce_time

\* a play of another class than the play before it
C16_Witness ==
    /\ Main
    /\ Plays(emitted) = 1
    /\ pre.played_at >= 0
    /\ pre.played \in chord_sounds
    /\ ev.fingers # pre.played

---------------------------------------------------------------------------
(* C17 *)

\* main.py with audio: the frame handled last showed no hand while the
\* sample played at pre.time was recorded as sounding
HandAwayWhileSounding ==
    Main /\ pygame_mixer_ok /\ ~ev.hand /\ pre.played \in chord_sounds

\* a frame without a hand, up to debounce_time after the play, emits nothing
\* and leaves the state; the first one after it emits a stop
HandAwayStep ==
    HandAwayWhileSounding =>
        IF ev.t <= pre.time + debounce_time
        THEN emitted = <<>> /\ MainUnchanged
        ELSE /\ emitted = <<Stop>>
             /\ playing = <<>>
             /\ last_sound_play_time = pre.time

\* the frame handled last showed no hand and the sample recorded as played
\* last still sounds after it
StillSounding ==
    /\ Main
    /\ pygame_mixer_ok
    /\ ~ev.hand
    /\ playing # <<>>

---------------------------------------------------------------------------
(* C18 *)

\* The most recent mixer call is a play of class c with no stop since: a
\* stop empties the channels of the mixer and a play adds one.
MostRecentIsPlay(c) == playing # <<>> /\ playing[Len(playing)] = c

\* C18: at the end of every loop iteration of main.py, last_played_fingers
\* is a key of chord_sounds if and only if the most recent mixer call was a
\* play of that class with no stop since; otherwise it is -1 or 0.
C18_LastPlayedIsSounding ==
    (prog = "main" /\ step \in {"frame", "empty"}) =>
        /\ last_played_fingers \in chord_sounds
              <=> MostRecentIsPlay(last_played_fingers)
        /\ last_played_fingers \notin chord_sounds =>
              /\ last_played_fingers \in {NothingPlayed, 0}
              /\ playing = <<>>

\* a count without a loaded sample has stopped a sounding sample
C18_Witness ==
    /\ Main
    /\ pre.played \in chord_sounds
    /\ ev.hand
    /\ ev.fingers \in DOMAIN finger_chord_map
    /\ emitted = <<Stop>>
    /\ last_played_fingers = 0

---------------------------------------------------------------------------
(* C19 *)

\* sample.py: the frame handled last called play_chord
Called == ev.hand /\ ev.fingers > 0

\* C19: a call play_chord(n) either emits stop, play(n) and sets
\* (last_played_chord, last_play_time) to (n, now), when n is a key of chords
\* and (last_played_chord # n or now - last_play_time > chord_cooldown), or
\* emits nothing and leaves both fields; a frame without a hand or with a
\* count of 0 calls nothing: it emits nothing, stops nothing and leaves both
\* fields.
C19_PlayChordEitherOr ==
    Sample =>
        IF /\ Called
           /\ ev.fingers \in chords
           /\ (pre.played # ev.fingers \/ ev.t - pre.time > chord_cooldown)
        THEN /\ emitted = <<Stop, Play(ev.fingers)>>
             /\ last_played_chord = ev.fingers
             /\ last_play_time = ev.t
             /\ playing = <<ev.fingers>>
        ELSE /\ emitted = <<>>
             /\ last_played_chord = pre.played
             /\ last_play_time = pre.time
             /\ playing = pre.playing

\* the chord played last is played again once the cooldown has passed
C19_Witness ==
    /\ Sample
    /\ Called
    /\ pre.played = ev.fingers
    /\ ev.t - pre.time > chord_cooldown
    /\ emitted = <<Stop, Play(ev.fingers)>>

====
